---- MODULE Spec2Model ----
(***************************************************************************)
(* lint-configs: placement of the bundled linter configuration into a      *)
(* project directory (lint_configs/__init__.py) and the command line       *)
(* front end that drives it (lint_configs/__main__.py).                    *)
(*                                                                         *)
(* Files hold bytes.  The program never sees bytes: Path.read_text opens   *)
(* the file in text mode (universal newlines: "\r\n" and "\r" are read as  *)
(* "\n") and Path.write_text writes every "\n" as the platform's line      *)
(* separator.  Both conversions are modelled.  A byte or a character is a  *)
(* string; "H", "S" and "R" stand for the non-blank body of the            *)
(* attribution header, of the merge separator and of the bundled           *)
(* configuration.                                                          *)
(***************************************************************************)
EXTENDS Integers, Sequences, FiniteSets, TLC

VARIABLES fs, resource, linesep, log, proc

vars == <<fs, resource, linesep, log, proc>>

\* ------------------------------------------------------------------ bounds
MaxLen == 2
MaxCalls == 2

\* ------------------------------------------------------------- characters
LF == "LF"
CR == "CR"
SP == "SP"
Whitespace == {SP, LF, CR}
Alphabet == {"x", SP, LF, CR}

\* A path at which no file exists (no byte is "ENOENT").
NoFile == <<"ENOENT">>
None == "None"

Canonical == "pyproject.toml"
Sidecar == "pyproject-linters.toml"
Other == "README.md"
FileNames == {Canonical, Sidecar, Other}

SeqsUpTo(S, n) == UNION {[1..k -> S] : k \in 0..n}

\* ------------------------------------------------------- text conversions
RECURSIVE ReadText(_)
ReadText(b) ==
    IF b = <<>> THEN <<>>
    ELSE IF Head(b) = CR
         THEN <<LF>> \o ReadText(IF Len(b) >= 2 /\ b[2] = LF
                                 THEN SubSeq(b, 3, Len(b))
                                 ELSE Tail(b))
         ELSE <<Head(b)>> \o ReadText(Tail(b))

RECURSIVE WriteTextSep(_, _)
WriteTextSep(t, sep) ==
    IF t = <<>> THEN <<>>
    ELSE (IF Head(t) = LF THEN sep ELSE <<Head(t)>>) \o WriteTextSep(Tail(t), sep)

WriteText(t) == WriteTextSep(t, linesep)

RECURSIVE rstrip(_)
rstrip(s) ==
    IF s = <<>> THEN <<>>
    ELSE IF s[Len(s)] \in Whitespace THEN rstrip(SubSeq(s, 1, Len(s) - 1))
    ELSE s

IsPrefix(p, s) == Len(p) <= Len(s) /\ SubSeq(s, 1, Len(p)) = p

\* ------------------------------------------------ copy_config_to_project
header == <<"H", LF, LF>>

separator == <<LF, LF, "S", LF, LF>>

\* Mutants of line 89: the existing text is not stripped; the existing text is
\* left out of what is written back.
MergedContentNoStrip(existing_content, source_content) ==
    existing_content \o separator \o header \o source_content

MergedContentOverwrite(existing_content, source_content) ==
    separator \o header \o source_content

MergedContent(existing_content, source_content) ==
    rstrip(existing_content) \o separator \o header \o source_content

\* Mutant of line 104: the header is not prepended.
TargetContentNoHeader(source_content) == source_content

TargetContent(source_content) == header \o source_content

\* Mutant of lines 98-100: the sidecar name is never chosen.
TargetFileNoSidecar(exists, merge_with_existing) == Canonical

TargetFile(exists, merge_with_existing) ==
    IF exists /\ ~merge_with_existing THEN Sidecar ELSE Canonical

\* Path.write_text: open(mode "w") creates or truncates the file, then the
\* text is written and the file closed.
\*   fault "none":  every byte is written;
\*   fault "open":  the open fails (directory not writable), nothing changes;
\*   fault "write": the write fails after the open (disk full, I/O error),
\*                  only the first k bytes reached the file.
\* Mutant of the writes: the text always goes to the canonical path.
WriteFileCanonical(f, name, text, fault, k) ==
    CASE fault = "open" -> f
      [] fault = "write" -> [f EXCEPT ![Canonical] = SubSeq(WriteText(text), 1, k)]
      [] OTHER -> [f EXCEPT ![Canonical] = WriteText(text)]

WriteFile(f, name, text, fault, k) ==
    CASE fault = "open" -> f
      [] fault = "write" -> [f EXCEPT ![name] = SubSeq(WriteText(text), 1, k)]
      [] OTHER -> [f EXCEPT ![name] = WriteText(text)]

\* The text the call writes into directory f: lines 89 and 104.
PlannedContent(f, merge_with_existing) ==
    IF merge_with_existing /\ f[Canonical] # NoFile
    THEN MergedContent(ReadText(f[Canonical]), ReadText(resource))
    ELSE TargetContent(ReadText(resource))

\* The messages printed on a completed call, by the file written.
Messages(appended, target_file) ==
    IF appended THEN <<"appended", "review", "next", "ruff", "mypy">>
    ELSE (IF target_file = Sidecar THEN <<"exists">> ELSE <<>>)
         \o <<"copied", "next">>
         \o (IF target_file = Sidecar THEN <<"rename", "ruff">>
                                      ELSE <<"ruff", "mypy">>)

\* The whole function as one value: the directory after the call, whether an
\* exception left the function, the path returned, and the paths opened for
\* writing.  fault "read" is the read of the existing canonical file failing.
CopyConfigToProject(f, merge_with_existing, fault, k) ==
    IF resource = NoFile
    THEN [fs |-> f, raised |-> TRUE, result |-> None, writes |-> <<>>, out |-> <<>>]
    ELSE
    LET appending == merge_with_existing /\ f[Canonical] # NoFile
        target_file == IF appending THEN Canonical
                       ELSE TargetFile(f[Canonical] # NoFile, merge_with_existing)
        content == PlannedContent(f, merge_with_existing)
        warned == IF target_file = Sidecar THEN <<"exists">> ELSE <<>>
    IN  IF appending /\ fault = "read"
        THEN [fs |-> f, raised |-> TRUE, result |-> None, writes |-> <<>>,
              out |-> <<>>]
        ELSE IF fault = "open"
        THEN [fs |-> f, raised |-> TRUE, result |-> None, writes |-> <<>>,
              out |-> warned]
        ELSE [fs |-> WriteFile(f, target_file, content, fault, k),
              raised |-> fault = "write",
              result |-> IF fault = "write" THEN None ELSE target_file,
              writes |-> <<target_file>>,
              out |-> IF fault = "write" THEN warned
                      ELSE Messages(appending, target_file)]

\* ------------------------------------------------------------------ state
ResourceBytes == {NoFile, <<"R", LF>>, <<"R", CR, LF>>}
UserBytes == SeqsUpTo(Alphabet, MaxLen)

\* An invocation of copy_config_to_project that has not started: its
\* position and its local variables.
Idle == [pc |-> "idle", merge_with_existing |-> FALSE, source_content |-> <<>>,
         existing_content |-> <<>>, exists |-> FALSE, target_file |-> Canonical]

Procs == {1, 2}

Init ==
    /\ fs \in {f \in [FileNames -> UserBytes \cup {NoFile}] :
                 /\ f[Sidecar] \in {NoFile, <<"x", LF>>}
                 /\ f[Other] \in {NoFile, <<"x">>}}
    /\ resource \in ResourceBytes
    /\ linesep \in {<<LF>>, <<CR, LF>>}
    /\ log = <<>>
    /\ proc = [p \in Procs |-> Idle]

\* ------------------------------------------------------------ __main__.py
\* Mutant of lines 65-71: the resource is read whether or not --cat is given.
ShowExitReads(cat) == IF resource = NoFile THEN 1 ELSE 0

\* The exit status of "show": the read of --cat is not guarded, so an
\* exception leaves main and the interpreter exits with status 1.
ShowExit(cat) == IF cat /\ resource = NoFile THEN 1 ELSE 0

\* lint-configs copy [--target DIR] [--merge]
Copy(merge, fault, k) ==
    /\ Len(log) < MaxCalls
    /\ LET r == CopyConfigToProject(fs, merge, fault, k) IN
       /\ fs' = r.fs
       /\ log' = Append(log,
                   [cmd |-> "copy", merge |-> merge, before |-> fs, after |-> r.fs,
                    exit |-> IF r.raised THEN 1 ELSE 0,
                    stderr |-> IF r.raised THEN "Error" ELSE None,
                    result |-> r.result, writes |-> r.writes, out |-> r.out])
    /\ UNCHANGED <<resource, linesep, proc>>

\* lint-configs show [--cat]
Show(cat) ==
    /\ Len(log) < MaxCalls
    /\ log' = Append(log,
                [cmd |-> "show", merge |-> cat, before |-> fs, after |-> fs,
                 exit |-> ShowExit(cat),
                 stderr |-> IF ShowExit(cat) = 0 THEN None ELSE "Traceback",
                 result |-> None, writes |-> <<>>,
                 out |-> IF ShowExit(cat) # 0 THEN <<>>
                         ELSE IF cat THEN <<"content">> ELSE <<"config_path">>])
    /\ UNCHANGED <<fs, resource, linesep, proc>>

CopyCmd == \E merge \in BOOLEAN : Copy(merge, "none", 0)

ShowCmd == \E cat \in BOOLEAN : Show(cat)

\* A copy during which the file system fails.
FaultyCopyCmd ==
    \E merge \in BOOLEAN, fault \in {"read", "open", "write"} :
        /\ resource # NoFile
        /\ fault = "read" => merge /\ fs[Canonical] # NoFile
        /\ \E k \in 0..(Len(WriteText(PlannedContent(fs, merge))) - 1) :
              /\ fault # "write" => k = 0
              /\ Copy(merge, fault, k)

\* --------------------------------------- interleaved copy_config_to_project
\* Two invocations on one directory, each advancing one file system call at
\* a time: lines 57-80 (arguments, the bundled text, the canonical path).
Begin(p, merge) ==
    /\ proc[p].pc = "idle"
    /\ proc' = [proc EXCEPT ![p] =
                  IF resource = NoFile THEN [@ EXCEPT !.pc = "raised"]
                  ELSE [@ EXCEPT !.pc = "l82", !.merge_with_existing = merge,
                                 !.source_content = ReadText(resource)]]
    /\ UNCHANGED <<fs, resource, linesep, log>>

\* line 82: if merge_with_existing and target_file.exists()
Check82(p) ==
    /\ proc[p].pc = "l82"
    /\ proc' = [proc EXCEPT ![p].pc =
                  IF proc[p].merge_with_existing /\ fs[Canonical] # NoFile
                  THEN "l84" ELSE "l98"]
    /\ UNCHANGED <<fs, resource, linesep, log>>

\* line 84: existing_content = target_file.read_text()
Read84(p) ==
    /\ proc[p].pc = "l84"
    /\ proc' = [proc EXCEPT ![p] =
                  IF fs[Canonical] = NoFile THEN [@ EXCEPT !.pc = "raised"]
                  ELSE [@ EXCEPT !.pc = "l90",
                                 !.existing_content = ReadText(fs[Canonical])]]
    /\ UNCHANGED <<fs, resource, linesep, log>>

\* lines 85-90: target_file.write_text(merged_content)
Write90(p) ==
    /\ proc[p].pc = "l90"
    /\ fs' = WriteFile(fs, Canonical,
                       MergedContent(proc[p].existing_content,
                                     proc[p].source_content), "none", 0)
    /\ proc' = [proc EXCEPT ![p].pc = "done"]
    /\ UNCHANGED <<resource, linesep, log>>

\* lines 98-100: if target_file.exists() and not merge_with_existing
Check98(p) ==
    /\ proc[p].pc = "l98"
    /\ proc' = [proc EXCEPT ![p] =
                  [@ EXCEPT !.pc = "l105",
                            !.exists = fs[Canonical] # NoFile,
                            !.target_file =
                                TargetFile(fs[Canonical] # NoFile,
                                           proc[p].merge_with_existing)]]
    /\ UNCHANGED <<fs, resource, linesep, log>>

\* lines 104-105: target_file.write_text(target_content)
Write105(p) ==
    /\ proc[p].pc = "l105"
    /\ fs' = WriteFile(fs, proc[p].target_file,
                       TargetContent(proc[p].source_content), "none", 0)
    /\ proc' = [proc EXCEPT ![p].pc = "done"]
    /\ UNCHANGED <<resource, linesep, log>>

BeginStep == \E p \in Procs, merge \in BOOLEAN : Begin(p, merge)
Check82Step == \E p \in Procs : Check82(p)
Read84Step == \E p \in Procs : Read84(p)
Write90Step == \E p \in Procs : Write90(p)
Check98Step == \E p \in Procs : Check98(p)
Write105Step == \E p \in Procs : Write105(p)

NextConc ==
    \/ BeginStep
    \/ Check82Step
    \/ Read84Step
    \/ Write90Step
    \/ Check98Step
    \/ Write105Step

SpecConc == Init /\ [][NextConc]_vars

Next == CopyCmd \/ ShowCmd

Spec == Init /\ [][Next]_vars

NextFault == CopyCmd \/ ShowCmd \/ FaultyCopyCmd

SpecFault == Init /\ [][NextFault]_vars

\* ----------------------------------------------------------------- claims
\* The commands run so far, each with the directory before and after it.
Calls == {log[i] : i \in 1..Len(log)}

CopyDone(e) == e.cmd = "copy" /\ e.exit = 0

Existed(e) == e.before[Canonical] # NoFile

BundledText == ReadText(resource)

EmptyDir == [n \in FileNames |-> NoFile]

\* The step is invocation p writing the canonical path.
WritesCanonical(p) ==
    /\ proc[p].pc \in {"l90", "l105"}
    /\ proc'[p].pc = "done"
    /\ proc[p].pc = "l105" => proc[p].target_file = Canonical

\* t with one occurrence of block taken out, in every way that can be done.
Without(t, block) ==
    {SubSeq(t, 1, i) \o SubSeq(t, i + Len(block) + 1, Len(t)) :
        i \in {j \in 0..(Len(t) - Len(block)) :
                  SubSeq(t, j + 1, j + Len(block)) = block}}

\* C1: a completed copy without merge into a directory that holds the
\* canonical file leaves that file's bytes as they were and returns the
\* sidecar path.
C1_SidecarLeavesCanonical ==
    \A e \in Calls :
        CopyDone(e) /\ ~e.merge /\ Existed(e) =>
            /\ e.after[Canonical] = e.before[Canonical]
            /\ e.result = Sidecar

C1_Witness ==
    \E e \in Calls :
        /\ CopyDone(e) /\ ~e.merge /\ Existed(e)
        /\ e.before[Canonical] # <<>>
        /\ e.after[Sidecar] # e.before[Sidecar]

\* C2 as stated: a completed merge is a pure append: the original text is
\* a prefix of the result, and the result without separator and header is
\* the original text followed by the bundled text.
C2_PureAppend ==
    \A e \in Calls :
        CopyDone(e) /\ e.merge /\ Existed(e) =>
            LET original == ReadText(e.before[Canonical])
                merged == ReadText(e.after[Canonical])
            IN  /\ e.result = Canonical
                /\ IsPrefix(original, merged)
                /\ (original \o BundledText) \in Without(merged, separator \o header)

\* C2 amended: a completed merge keeps the original text up to its trailing
\* whitespace, which is dropped: the result is the original text without its
\* trailing whitespace, then the separator, the header and the bundled text.
C2_AppendAfterRstrip ==
    \A e \in Calls :
        CopyDone(e) /\ e.merge /\ Existed(e) =>
            LET original == ReadText(e.before[Canonical])
                merged == ReadText(e.after[Canonical])
            IN  /\ e.result = Canonical
                /\ IsPrefix(rstrip(original), merged)
                /\ (rstrip(original) \o BundledText)
                       \in Without(merged, separator \o header)
                /\ Len(merged) = Len(rstrip(original)) + Len(separator)
                                   + Len(header) + Len(BundledText)

C2_Witness ==
    \E e \in Calls :
        /\ CopyDone(e) /\ e.merge /\ Existed(e)
        /\ ReadText(e.before[Canonical]) # rstrip(ReadText(e.before[Canonical]))
        /\ rstrip(ReadText(e.before[Canonical])) # <<>>

\* C3: a completed copy into a directory without the canonical file returns
\* the canonical path, and the file then reads as the header followed at
\* once by the bundled text, whatever the merge flag; nothing else changes.
C3_CreateNew ==
    \A e \in Calls :
        CopyDone(e) /\ ~Existed(e) =>
            /\ e.result = Canonical
            /\ e.after[Canonical] # NoFile
            /\ ReadText(e.after[Canonical]) = header \o BundledText
            /\ \A n \in FileNames \ {Canonical} : e.after[n] = e.before[n]

C3_Witness ==
    \E e \in Calls :
        /\ CopyDone(e) /\ ~Existed(e) /\ e.merge
        /\ e.before[Sidecar] # NoFile
        /\ linesep = <<CR, LF>>
        /\ resource = <<"R", CR, LF>>

\* C4 as stated: a completed copy without merge into a directory that holds
\* the canonical file replaces the content of no file that was there.
C4_NoFileReplaced ==
    \A e \in Calls :
        CopyDone(e) /\ ~e.merge /\ Existed(e) =>
            \A n \in FileNames : e.before[n] # NoFile => e.after[n] = e.before[n]

\* C4 amended: such a copy writes the fixed sidecar name: the canonical file
\* and every file other than the sidecar keep their content, and the sidecar,
\* present before or not, then reads as the header and the bundled text.
C4_OnlySidecarReplaced ==
    \A e \in Calls :
        CopyDone(e) /\ ~e.merge /\ Existed(e) =>
            /\ \A n \in FileNames \ {Sidecar} : e.after[n] = e.before[n]
            /\ e.after[Sidecar] # NoFile
            /\ ReadText(e.after[Sidecar]) = header \o BundledText

C4_Witness ==
    \E e \in Calls :
        /\ CopyDone(e) /\ ~e.merge /\ Existed(e)
        /\ e.before[Sidecar] # NoFile
        /\ e.after[Sidecar] # e.before[Sidecar]
        /\ e.before[Other] # NoFile

\* C5: two completed copies without merge in a row, the first into an empty
\* directory: the first creates the canonical file, the second writes the
\* sidecar and leaves the canonical file of the first as it is.
C5_SecondRunSidecar ==
    \A i \in 1..(Len(log) - 1) :
        /\ CopyDone(log[i]) /\ ~log[i].merge /\ log[i].before = EmptyDir
        /\ CopyDone(log[i + 1]) /\ ~log[i + 1].merge
        => /\ log[i].result = Canonical
           /\ log[i].after[Canonical] # NoFile
           /\ log[i].after[Sidecar] = NoFile
           /\ log[i + 1].result = Sidecar
           /\ log[i + 1].after[Sidecar] # NoFile
           /\ log[i + 1].after[Canonical] = log[i].after[Canonical]

C5_Witness ==
    /\ Len(log) >= 2
    /\ CopyDone(log[1]) /\ ~log[1].merge /\ log[1].before = EmptyDir
    /\ CopyDone(log[2]) /\ ~log[2].merge
    /\ fs[Sidecar] # NoFile

\* C6: a completed copy opened one file for writing, the path it returns is
\* that file, the file holds the planned text, and no other file changed.
C6_OneWrite ==
    \A e \in Calls :
        CopyDone(e) =>
            /\ Len(e.writes) = 1
            /\ e.writes[1] = e.result
            /\ e.result \in {Canonical, Sidecar}
            /\ e.after[e.result] # NoFile
            /\ e.after[e.result] = WriteText(PlannedContent(e.before, e.merge))
            /\ \A n \in FileNames \ {e.result} : e.after[n] = e.before[n]

C6_Witness ==
    /\ \E e \in Calls : CopyDone(e) /\ e.result = Sidecar /\ e.before[Other] # NoFile
    /\ \E e \in Calls : CopyDone(e) /\ e.merge /\ Existed(e)

\* C7 as stated: a copy exits 0 only with its write complete, and a copy
\* that exits 1 leaves every file of the directory as it was.
C7_NoPartialFailure ==
    \A e \in Calls :
        e.cmd = "copy" =>
            /\ e.exit \in {0, 1}
            /\ e.exit = 0 =>
                  /\ Len(e.writes) = 1
                  /\ e.after[e.result] = WriteText(PlannedContent(e.before, e.merge))
            /\ e.exit = 1 => e.after = e.before

\* C8 as stated: show exits 0 in every case.
C8_ShowAlwaysZero == \A e \in Calls : e.cmd = "show" => e.exit = 0

\* C8 amended: show exits 0 unless --cat is given and the bundled resource
\* cannot be read; then the exception leaves main and the exit status is 1.
\* Show changes no file.
C8_ShowExit ==
    \A e \in Calls :
        e.cmd = "show" =>
            /\ e.exit = 0 <=> ~(e.merge /\ resource = NoFile)
            /\ e.exit \in {0, 1}
            /\ e.after = e.before

C8_Witness ==
    /\ resource = NoFile
    /\ \E e \in Calls : e.cmd = "show" /\ e.merge /\ e.exit = 1
    /\ \E e \in Calls : e.cmd = "show" /\ ~e.merge /\ e.exit = 0

\* C9: over any run of commands, a canonical file that exists keeps
\* existing; after each copy it reads as an extension of what it read before
\* with trailing whitespace removed; only a merge changes its bytes.
C9_CanonicalOnlyGrows ==
    /\ \A i \in 1..Len(log) :
          log[i].after = IF i = Len(log) THEN fs ELSE log[i + 1].before
    /\ \A e \in Calls :
          Existed(e) =>
              /\ e.after[Canonical] # NoFile
              /\ IsPrefix(rstrip(ReadText(e.before[Canonical])),
                          ReadText(e.after[Canonical]))
              /\ e.after[Canonical] # e.before[Canonical]
                    => e.cmd = "copy" /\ e.merge

C9_Witness ==
    /\ Len(log) >= 2
    /\ \A e \in Calls : CopyDone(e)
    /\ log[1].merge /\ Existed(log[1])
    /\ ReadText(log[1].before[Canonical]) # rstrip(ReadText(log[1].before[Canonical]))
    /\ log[2].merge

\* C10 as stated: with two invocations interleaved, a write without merge
\* never lands on the canonical path while the canonical file exists, and a
\* write with merge keeps what the canonical file held at that moment (up to
\* trailing whitespace).
C10_NoLostWrite ==
    [][\A p \in Procs :
          WritesCanonical(p) /\ fs[Canonical] # NoFile =>
              /\ proc[p].merge_with_existing
              /\ IsPrefix(rstrip(ReadText(fs[Canonical])),
                          ReadText(fs'[Canonical]))]_vars

\* C10 amended: each invocation acts on what it saw itself: a write without
\* merge lands on the canonical path only if the canonical file did not exist
\* at that invocation's own check (line 98), and an appending write keeps the
\* text that invocation read (line 84); what the other invocation wrote in
\* between is overwritten.
C10_ActsOnOwnCheck ==
    [][\A p \in Procs :
          WritesCanonical(p) =>
              /\ proc[p].pc = "l105" /\ ~proc[p].merge_with_existing
                    => ~proc[p].exists
              /\ proc[p].pc = "l90"
                    => /\ proc[p].merge_with_existing
                       /\ IsPrefix(rstrip(proc[p].existing_content),
                                   ReadText(fs'[Canonical]))
              /\ \A n \in FileNames \ {Canonical} : fs'[n] = fs[n]]_vars

\* An invocation is past its check while the other has already written the
\* canonical file the first one is about to write.
C10_Witness ==
    \E p \in Procs : \E q \in Procs \ {p} :
        /\ proc[q].pc = "done"
        /\ fs[Canonical] # NoFile
        /\ \/ proc[p].pc = "l105" /\ proc[p].target_file = Canonical
                                  /\ ~proc[p].merge_with_existing
           \/ proc[p].pc = "l90"
              /\ ~IsPrefix(rstrip(ReadText(fs[Canonical])),
                           MergedContent(proc[p].existing_content,
                                         proc[p].source_content))
====
